---- MODULE Spec2Model ----
(***************************************************************************)
(* Model of the t-chain node (src/node/src/main.rs): a transaction pool    *)
(* and a ledger, each behind its own tokio Mutex, shared by the miner task *)
(* (spawned at main.rs:156) and the command/event loop (main.rs:178).      *)
(* Every lock acquisition is one step and the locked operation with the    *)
(* release of the guard is the next one, so the two tasks interleave at    *)
(* every await point of the source.                                        *)
(*                                                                         *)
(* Block numbers are u64 in the source; a ledger of 2^64 blocks is beyond  *)
(* any bound checked here, so `+ 1` is modelled without wrap-around.       *)
(***************************************************************************)
EXTENDS Integers, Sequences, FiniteSets, TLC

\* ---------------------------------------------------------------- bounds
\* Number of lines / swarm events the event loop receives in a behaviour.
MaxEvents == 3
\* Number of peers the discovery collaborator can report.
NumPeers == 2

Peers == 1..NumPeers

\* ------------------------------------------------------- program constants
GENESIS_BLOCK_NUMBER == 1
TX_FROM == 0
TX_TO == 291

\* Lines the operator may type and payloads peers may send: the two
\* recognised commands and a text that differs only in case.
Lines == {"ADD_TRANSACTION", "FETCH_BLOCKCHAIN", "add_transaction"}

None == [some |-> FALSE, value |-> 0]
Some(v) == [some |-> TRUE, value |-> v]

VARIABLES
    blocks,        \* Blockchain.blocks: the Vec<Block> behind the ledger Mutex
    pool,          \* TransactionPool.transactions: the Vec behind the pool Mutex
    ledgerLock,    \* holder of the ledger Mutex: "free", "miner" or "main"
    poolLock,      \* holder of the pool Mutex: "free", "miner" or "main"
    mpc,           \* position of the miner task
    last_mined_block_number,  \* miner local (main.rs:164)
    new_block,     \* miner local (main.rs:167)
    lpc,           \* position of the command/event loop
    cmd,           \* the line or message the loop is handling / handled last
    explicitPeers, \* gossipsub's explicit peer set
    peerLast,      \* history: the latest mdns event that named each peer
    output,        \* the last line written to stdout / stderr
    nEvents,       \* history: events received by the loop so far
    nAdded,        \* history: transactions created so far (gives each an id)
    publishAttempts, \* history: calls of gossipsub.publish so far
    cmdAppends,    \* history: pool appends made by the current command
    cmdPublishes,  \* history: publish calls made by the current command
    snapPool,      \* history: the pool at the miner's latest snapshot step
    checkedEmpty,  \* history: the pool was empty at the latest has_pending check
    cycleBlocks,   \* history: the ledger when the current miner cycle started
    windowAdds,    \* history: ids added between a snapshot step and its clear step
    drainMark      \* history: nAdded at the latest clear step

vars == <<blocks, pool, ledgerLock, poolLock, mpc, last_mined_block_number,
          new_block, lpc, cmd, explicitPeers, peerLast, output, nEvents, nAdded,
          publishAttempts, cmdAppends, cmdPublishes, snapPool, checkedEmpty,
          cycleBlocks, windowAdds, drainMark>>

minerVars == <<mpc, last_mined_block_number, new_block>>
minerHist == <<snapPool, checkedEmpty, cycleBlocks, drainMark>>
peerVars == <<explicitPeers, peerLast>>
loopVars == <<lpc, cmd, peerVars, output, nEvents, nAdded,
              publishAttempts, cmdAppends, cmdPublishes>>

\* ------------------------------------------------------------ pure code
\* Transaction::new(): fixed endpoints; id is a history field that tells
\* the otherwise identical transactions apart.
Transaction_new(id) == [from |-> TX_FROM, to |-> TX_TO, id |-> id]


\* Variant of Block_new that forgets the increment.
Block_new_same_number(last, transactions) ==
    [number |-> IF last.some THEN last.value ELSE GENESIS_BLOCK_NUMBER,
     transactions |-> transactions]

Block_new(last, transactions) ==
    [number |-> IF last.some THEN last.value + 1 ELSE GENESIS_BLOCK_NUMBER,
     transactions |-> transactions]

get_last_mined_block(bs) ==
    IF Len(bs) = 0 THEN None ELSE Some(bs[Len(bs)])

get_last_mined_block_number(bs) ==
    LET b == get_last_mined_block(bs)
    IN IF b.some THEN Some(b.value.number) ELSE None


\* Variants of mine_naively: assigning the vector instead of pushing, and
\* replacing the last block.
mine_naively_replace_last(bs, b) ==
    IF bs = << >> THEN << b >> ELSE Append(SubSeq(bs, 1, Len(bs) - 1), b)
mine_naively_assign(bs, b) == << b >>

mine_naively(bs, b) == Append(bs, b)


\* Variant of get_transactions that skips the first element.
get_transactions_skip_first(p) == IF p = << >> THEN p ELSE Tail(p)

get_transactions(p) == p


\* Variant of has_pending_transactions with >= in place of >.
has_pending_transactions_ge(p) == Len(get_transactions(p)) >= 0

has_pending_transactions(p) == Len(get_transactions(p)) > 0


\* Variants of add: pushing twice, inserting at the front, and assigning
\* instead of pushing.
add_twice(p, t) == Append(Append(p, t), t)
add_front(p, t) == << t >> \o p
add_assign(p, t) == << t >>

add(p, t) == Append(p, t)


\* Variants of clear: leaving the vector as it is, and removing only what
\* the miner's snapshot held.
clear_nothing(p) == p
clear_snapshot_only(p) ==
    SubSeq(p, Len(new_block.transactions) + 1, Len(p))

clear(p) == << >>

\* Debug output of Arc<Blockchain>: tokio's Mutex prints its data when
\* try_lock succeeds and "<locked>" otherwise.
Blockchain_fmt(bs, lock) ==
    IF lock = "free" THEN [kind |-> "blockchain", locked |-> FALSE, data |-> bs]
                     ELSE [kind |-> "blockchain", locked |-> TRUE, data |-> << >>]

Line(kind) == [kind |-> kind, locked |-> FALSE, data |-> << >>]

\* ----------------------------------------------------------------- Init
Init ==
    /\ blocks = << >>
    /\ pool = << >>
    /\ ledgerLock = "free"
    /\ poolLock = "free"
    /\ mpc = "tick"
    /\ last_mined_block_number = None
    /\ new_block = Block_new(None, << >>)
    /\ lpc = "select"
    /\ cmd = [src |-> "none", text |-> ""]
    /\ explicitPeers = {}
    /\ peerLast = [p \in Peers |-> "none"]
    /\ output = Line("commands")
    /\ nEvents = 0
    /\ nAdded = 0
    /\ publishAttempts = 0
    /\ cmdAppends = 0
    /\ cmdPublishes = 0
    /\ snapPool = << >>
    /\ checkedEmpty = FALSE
    /\ cycleBlocks = << >>
    /\ windowAdds = {}
    /\ drainMark = 0

\* ------------------------------------------------------------ miner task
\* new_block_interval.tick().await returns (main.rs:162).
MinerTick ==
    /\ mpc = "tick"
    /\ mpc' = "last_lock"
    /\ cycleBlocks' = blocks
    /\ UNCHANGED <<blocks, pool, ledgerLock, poolLock, last_mined_block_number,
                   new_block, loopVars, snapPool, checkedEmpty, windowAdds,
                   drainMark>>

\* self.blocks.lock().await in get_last_mined_block (main.rs:113).
MinerLastLock ==
    /\ mpc = "last_lock"
    /\ ledgerLock = "free"
    /\ ledgerLock' = "miner"
    /\ mpc' = "last_read"
    /\ UNCHANGED <<blocks, pool, poolLock, last_mined_block_number, new_block,
                   loopVars, minerHist, windowAdds>>

\* blocks.last().cloned(), mapped to its number (main.rs:110, 115).
MinerLastRead ==
    /\ mpc = "last_read"
    /\ last_mined_block_number' = get_last_mined_block_number(blocks)
    /\ ledgerLock' = "free"
    /\ mpc' = "pending_lock"
    /\ UNCHANGED <<blocks, pool, poolLock, new_block, loopVars, minerHist,
                   windowAdds>>

\* The lock taken by has_pending_transactions (main.rs:134, 137).
MinerPendingLock ==
    /\ mpc = "pending_lock"
    /\ poolLock = "free"
    /\ poolLock' = "miner"
    /\ mpc' = "pending_read"
    /\ UNCHANGED <<blocks, pool, ledgerLock, last_mined_block_number, new_block,
                   loopVars, minerHist, windowAdds>>

\* if transaction_pool.has_pending_transactions().await (main.rs:166).
MinerPendingRead ==
    /\ mpc = "pending_read"
    /\ poolLock' = "free"
    /\ checkedEmpty' = (pool = << >>)
    /\ mpc' = IF has_pending_transactions(pool) THEN "snapshot_lock" ELSE "tick"
    /\ UNCHANGED <<blocks, pool, ledgerLock, last_mined_block_number, new_block,
                   loopVars, snapPool, cycleBlocks, windowAdds, drainMark>>

\* The lock taken by get_transactions (main.rs:137, 169).
MinerSnapshotLock ==
    /\ mpc = "snapshot_lock"
    /\ poolLock = "free"
    /\ poolLock' = "miner"
    /\ mpc' = "snapshot_read"
    /\ UNCHANGED <<blocks, pool, ledgerLock, last_mined_block_number, new_block,
                   loopVars, minerHist, windowAdds>>

\* Variant of MinerSnapshotRead that keeps the pool guard alive across the
\* rest of the drain.
MinerSnapshotRead_keep_guard ==
    /\ mpc = "snapshot_read"
    /\ new_block' = Block_new(last_mined_block_number, get_transactions(pool))
    /\ snapPool' = pool
    /\ mpc' = "mine_lock"
    /\ UNCHANGED <<blocks, pool, ledgerLock, poolLock, last_mined_block_number,
                   loopVars, checkedEmpty, cycleBlocks, windowAdds, drainMark>>

\* Block::new(last_mined_block_number, &get_transactions()) (main.rs:167-170).
MinerSnapshotRead ==
    /\ mpc = "snapshot_read"
    /\ new_block' = Block_new(last_mined_block_number, get_transactions(pool))
    /\ snapPool' = pool
    /\ poolLock' = "free"
    /\ mpc' = "mine_lock"
    /\ UNCHANGED <<blocks, pool, ledgerLock, last_mined_block_number, loopVars,
                   checkedEmpty, cycleBlocks, windowAdds, drainMark>>

\* self.blocks.lock().await in mine_naively (main.rs:118).
MinerMineLock ==
    /\ mpc = "mine_lock"
    /\ ledgerLock = "free"
    /\ ledgerLock' = "miner"
    /\ mpc' = "mine_push"
    /\ UNCHANGED <<blocks, pool, poolLock, last_mined_block_number, new_block,
                   loopVars, minerHist, windowAdds>>

\* blocks.push(new_block) (main.rs:119).
MinerMinePush ==
    /\ mpc = "mine_push"
    /\ blocks' = mine_naively(blocks, new_block)
    /\ ledgerLock' = "free"
    /\ mpc' = "clear_lock"
    /\ UNCHANGED <<pool, poolLock, last_mined_block_number, new_block, loopVars,
                   minerHist, windowAdds>>

\* self.transactions.lock().await in clear (main.rs:144).
MinerClearLock ==
    /\ mpc = "clear_lock"
    /\ poolLock = "free"
    /\ poolLock' = "miner"
    /\ mpc' = "clear_reset"
    /\ UNCHANGED <<blocks, pool, ledgerLock, last_mined_block_number, new_block,
                   loopVars, minerHist, windowAdds>>

\* *transactions = Vec::new() (main.rs:145); the loop goes back to the tick.
MinerClearReset ==
    /\ mpc = "clear_reset"
    /\ pool' = clear(pool)
    /\ poolLock' = "free"
    /\ drainMark' = nAdded
    /\ mpc' = "tick"
    /\ UNCHANGED <<blocks, ledgerLock, last_mined_block_number, new_block,
                   loopVars, snapPool, checkedEmpty, cycleBlocks, windowAdds>>

Miner ==
    \/ MinerTick
    \/ MinerLastLock
    \/ MinerLastRead
    \/ MinerPendingLock
    \/ MinerPendingRead
    \/ MinerSnapshotLock
    \/ MinerSnapshotRead
    \/ MinerMineLock
    \/ MinerMinePush
    \/ MinerClearLock
    \/ MinerClearReset

\* ------------------------------------------------------- command/event loop
\* The miner is between its snapshot read and its clear step.
InDrainWindow == mpc \in {"mine_lock", "mine_push", "clear_lock", "clear_reset"}

\* Only the stdin arm calls gossipsub.publish after the add (main.rs:191);
\* the gossipsub Message arm ends with the add (main.rs:221).

\* Variant of publishes_after_add that re-broadcasts network messages too.
publishes_after_add_any(src) == TRUE

publishes_after_add(src) == src = "local"

\* Variant of Receive that takes a new line or event while the add of the
\* previous command is still awaited.
Receive_while_pending(src, text) ==
    /\ nEvents < MaxEvents
    /\ nEvents' = nEvents + 1
    /\ cmd' = [src |-> src, text |-> text]
    /\ cmdAppends' = 0
    /\ cmdPublishes' = 0

\* Start of the handling of one line or swarm event.
Receive(src, text) ==
    /\ lpc = "select"
    /\ nEvents < MaxEvents
    /\ nEvents' = nEvents + 1
    /\ cmd' = [src |-> src, text |-> text]
    /\ cmdAppends' = 0
    /\ cmdPublishes' = 0

\* stdin arm, "ADD_TRANSACTION" (main.rs:187-190): awaits the add.
LocalAddTransaction ==
    /\ Receive("local", "ADD_TRANSACTION")
    /\ lpc' = "add_lock"
    /\ UNCHANGED <<blocks, pool, ledgerLock, poolLock, minerVars, minerHist,
                   windowAdds, peerVars, output, nAdded, publishAttempts>>

\* gossipsub Message arm, "ADD_TRANSACTION" (main.rs:215-221).
NetAddTransaction ==
    /\ Receive("network", "ADD_TRANSACTION")
    /\ lpc' = "add_lock"
    /\ UNCHANGED <<blocks, pool, ledgerLock, poolLock, minerVars, minerHist,
                   windowAdds, peerVars, output, nAdded, publishAttempts>>

\* self.transactions.lock().await in add (main.rs:140).
AddLock ==
    /\ lpc = "add_lock"
    /\ poolLock = "free"
    /\ poolLock' = "main"
    /\ lpc' = "add_push"
    /\ UNCHANGED <<blocks, pool, ledgerLock, minerVars, minerHist, windowAdds,
                   cmd, peerVars, output, nEvents, nAdded, publishAttempts,
                   cmdAppends, cmdPublishes>>

\* transactions.push(transaction) and the println (main.rs:141, 184).
AddPush ==
    /\ lpc = "add_push"
    /\ pool' = add(pool, Transaction_new(nAdded + 1))
    /\ nAdded' = nAdded + 1
    /\ cmdAppends' = cmdAppends + (Len(pool') - Len(pool))
    /\ windowAdds' = IF InDrainWindow THEN windowAdds \cup {nAdded + 1}
                                      ELSE windowAdds
    /\ poolLock' = "free"
    /\ output' = Line("added")
    /\ lpc' = IF publishes_after_add(cmd.src) THEN "publish" ELSE "select"
    /\ UNCHANGED <<blocks, ledgerLock, minerVars, minerHist, cmd, peerVars,
                   nEvents, publishAttempts, cmdPublishes>>

\* Variant of Publish that takes the transaction back out of the pool when
\* the transport returns an error.
Publish_rollback ==
    /\ lpc = "publish"
    /\ \E ok \in BOOLEAN :
          /\ output' = IF ok THEN output ELSE Line("publish_error")
          /\ pool' = IF ok \/ pool = << >> THEN pool
                                           ELSE SubSeq(pool, 1, Len(pool) - 1)
    /\ publishAttempts' = publishAttempts + 1
    /\ cmdPublishes' = cmdPublishes + 1
    /\ lpc' = "select"
    /\ UNCHANGED <<blocks, ledgerLock, poolLock, minerVars, minerHist,
                   windowAdds, cmd, peerVars, nEvents, nAdded, cmdAppends>>

\* gossipsub.publish(topic, line) (main.rs:191-193): the transport accepts
\* the message or returns an error, which is printed.
Publish ==
    /\ lpc = "publish"
    /\ \E ok \in BOOLEAN :
          output' = IF ok THEN output ELSE Line("publish_error")
    /\ publishAttempts' = publishAttempts + 1
    /\ cmdPublishes' = cmdPublishes + 1
    /\ lpc' = "select"
    /\ UNCHANGED <<blocks, pool, ledgerLock, poolLock, minerVars, minerHist,
                   windowAdds, cmd, peerVars, nEvents, nAdded, cmdAppends>>


\* Variant of LocalFetchBlockchain that moves the blocks out of the ledger.
LocalFetchBlockchain_take ==
    /\ lpc = "select"
    /\ nEvents < MaxEvents
    /\ nEvents' = nEvents + 1
    /\ cmd' = [src |-> "local", text |-> "FETCH_BLOCKCHAIN"]
    /\ cmdAppends' = 0
    /\ cmdPublishes' = 0
    /\ output' = [kind |-> "blockchain", locked |-> FALSE, data |-> blocks]
    /\ blocks' = << >>
    /\ UNCHANGED <<pool, ledgerLock, poolLock, minerVars, minerHist,
                   windowAdds, lpc, peerVars, nAdded, publishAttempts>>

\* stdin arm, "FETCH_BLOCKCHAIN" (main.rs:195-197).
LocalFetchBlockchain ==
    /\ Receive("local", "FETCH_BLOCKCHAIN")
    /\ output' = Blockchain_fmt(blocks, ledgerLock)
    /\ UNCHANGED <<blocks, pool, ledgerLock, poolLock, minerVars, minerHist,
                   windowAdds, lpc, peerVars, nAdded, publishAttempts>>

\* stdin arm, any other line (main.rs:198).
LocalInvalid ==
    /\ \E line \in Lines \ {"ADD_TRANSACTION", "FETCH_BLOCKCHAIN"} :
          Receive("local", line)
    /\ output' = Line("invalid")
    /\ UNCHANGED <<blocks, pool, ledgerLock, poolLock, minerVars, minerHist,
                   windowAdds, lpc, peerVars, nAdded, publishAttempts>>

\* Variant of NetInvalid that matches the payload without regard to case and
\* so takes "add_transaction" for the add command.
NetInvalid_ignore_case ==
    /\ \E data \in Lines \ {"ADD_TRANSACTION"} :
          /\ Receive("network", data)
          /\ lpc' = IF data = "add_transaction" THEN "add_lock" ELSE lpc
          /\ output' = IF data = "add_transaction" THEN output
                                                   ELSE Line("invalid_node")
    /\ UNCHANGED <<blocks, pool, ledgerLock, poolLock, minerVars, minerHist,
                   windowAdds, peerVars, nAdded, publishAttempts>>

\* gossipsub Message arm, any other payload (main.rs:222).
NetInvalid ==
    /\ \E data \in Lines \ {"ADD_TRANSACTION"} : Receive("network", data)
    /\ output' = Line("invalid_node")
    /\ UNCHANGED <<blocks, pool, ledgerLock, poolLock, minerVars, minerHist,
                   windowAdds, lpc, peerVars, nAdded, publishAttempts>>

\* mdns Discovered arm (main.rs:203-208).
MdnsDiscovered ==
    /\ Receive("mdns", "Discovered")
    /\ \E list \in (SUBSET Peers) \ {{}} :
          /\ explicitPeers' = explicitPeers \cup list
          /\ peerLast' = [p \in Peers |-> IF p \in list THEN "discovered"
                                                         ELSE peerLast[p]]
    /\ output' = Line("discovered")
    /\ UNCHANGED <<blocks, pool, ledgerLock, poolLock, minerVars, minerHist,
                   windowAdds, lpc, nAdded, publishAttempts>>

\* Variant of MdnsExpired that calls add_explicit_peer, as the Discovered arm
\* does.
MdnsExpired_adds ==
    /\ Receive("mdns", "Expired")
    /\ \E list \in (SUBSET Peers) \ {{}} :
          /\ explicitPeers' = explicitPeers \cup list
          /\ peerLast' = [p \in Peers |-> IF p \in list THEN "expired"
                                                         ELSE peerLast[p]]
    /\ output' = Line("expired")
    /\ UNCHANGED <<blocks, pool, ledgerLock, poolLock, minerVars, minerHist,
                   windowAdds, lpc, nAdded, publishAttempts>>

\* mdns Expired arm (main.rs:209-214).
MdnsExpired ==
    /\ Receive("mdns", "Expired")
    /\ \E list \in (SUBSET Peers) \ {{}} :
          /\ explicitPeers' = explicitPeers \ list
          /\ peerLast' = [p \in Peers |-> IF p \in list THEN "expired"
                                                         ELSE peerLast[p]]
    /\ output' = Line("expired")
    /\ UNCHANGED <<blocks, pool, ledgerLock, poolLock, minerVars, minerHist,
                   windowAdds, lpc, nAdded, publishAttempts>>

\* NewListenAddr arm (main.rs:225-227).
NewListenAddr ==
    /\ Receive("swarm", "NewListenAddr")
    /\ output' = Line("listening")
    /\ UNCHANGED <<blocks, pool, ledgerLock, poolLock, minerVars, minerHist,
                   windowAdds, lpc, peerVars, nAdded, publishAttempts>>

\* Every other swarm event (main.rs:228).
OtherSwarmEvent ==
    /\ Receive("swarm", "other")
    /\ UNCHANGED <<blocks, pool, ledgerLock, poolLock, minerVars, minerHist,
                   windowAdds, lpc, peerVars, output, nAdded,
                   publishAttempts>>

EventLoop ==
    \/ LocalAddTransaction
    \/ NetAddTransaction
    \/ AddLock
    \/ AddPush
    \/ Publish
    \/ LocalFetchBlockchain
    \/ LocalInvalid
    \/ NetInvalid
    \/ MdnsDiscovered
    \/ MdnsExpired
    \/ NewListenAddr
    \/ OtherSwarmEvent

Next == Miner \/ EventLoop

Spec == Init /\ [][Next]_vars

\* The tokio runtime keeps polling both tasks, the interval timer keeps
\* firing, and tokio's Mutex hands the lock to its waiters in FIFO order, so
\* a task that waits for a lock gets it although the other task takes and
\* releases it in between (strong fairness for the lock steps).  Nothing
\* obliges the operator or the peers to send input.
Fairness ==
    /\ SF_vars(Miner)
    /\ SF_vars(AddLock \/ AddPush \/ Publish)

FairSpec == Spec /\ Fairness

\* ------------------------------------------------------------ type check
TypeOK ==
    /\ ledgerLock \in {"free", "miner", "main"}
    /\ poolLock \in {"free", "miner", "main"}
    /\ nEvents \in 0..MaxEvents
    /\ nAdded \in 0..MaxEvents
    /\ Len(pool) <= MaxEvents
    /\ Len(blocks) <= MaxEvents

\* --------------------------------------------------------------- helpers
IsPrefix(s, t) == Len(s) <= Len(t) /\ SubSeq(t, 1, Len(s)) = s

\* Ids of the transactions in a sequence of transactions.
Ids(txs) == {txs[j].id : j \in 1..Len(txs)}

\* Ids of the transactions committed in some block of the ledger.
LedgerIds == UNION {Ids(blocks[i].transactions) : i \in 1..Len(blocks)}

LocalAdd == [src |-> "local", text |-> "ADD_TRANSACTION"]
NetAdd == [src |-> "network", text |-> "ADD_TRANSACTION"]
LocalFetch == [src |-> "local", text |-> "FETCH_BLOCKCHAIN"]

\* The command is one that neither match of the event loop recognises.
IsInvalid(c) ==
    \/ c.src = "local" /\ c.text \in Lines \ {"ADD_TRANSACTION", "FETCH_BLOCKCHAIN"}
    \/ c.src = "network" /\ c.text \in Lines \ {"ADD_TRANSACTION"}

\* The miner waits for its tick and the loop waits in select!.
Settled == mpc = "tick" /\ lpc = "select"

\* ---------------------------------------------------------------- claims
\* C1: in every reachable state the i-th block of the ledger has number i:
\* the numbers are 1, 2, ..., n, strictly increasing from 1 without gaps or
\* repeats, although the miner reads the last number before it checks and
\* snapshots the pool.
C1_BlockNumbersSequential ==
    \A i \in 1..Len(blocks) : blocks[i].number = i

\* Three blocks mined, the last one from a pool that grew after the miner
\* had read the last block number.
C1_Witness ==
    /\ Len(blocks) >= 3
    /\ Len(blocks[3].transactions) >= 1
    /\ blocks[3].number = 3

\* C2: the block appended by a drain holds exactly the transactions that
\* were in the pool at the instant of the drain's snapshot step, and the
\* pool is empty right after the drain's clear step.
C2_DrainTakesSnapshot ==
    [][ /\ (mpc = "mine_push" /\ mpc' = "clear_lock")
            => /\ Len(blocks') = Len(blocks) + 1
               /\ blocks'[Len(blocks')].transactions = snapPool
               /\ snapPool # << >>
        /\ (mpc = "clear_reset" /\ mpc' = "tick") => pool' = << >>
      ]_vars

\* A drain of a two-transaction pool has completed.
C2_Witness ==
    /\ mpc = "tick"
    /\ Len(blocks) = 1
    /\ Len(blocks[1].transactions) = 2
    /\ blocks[1].transactions = snapPool
    /\ pool = << >>

\* C3: a miner cycle whose has_pending check finds the pool empty goes back
\* to the tick with the ledger as it was when the cycle started and the pool
\* untouched; with no transaction ever added the ledger stays empty.
C3_EmptyCycleAppendsNothing ==
    /\ [](nAdded = 0 => blocks = << >>)
    /\ [][ (mpc = "pending_read" /\ mpc' # "pending_read" /\ pool = << >>)
              => /\ mpc' = "tick"
                 /\ blocks' = blocks
                 /\ blocks' = cycleBlocks
                 /\ pool' = pool
         ]_vars

\* An empty cycle has run after an earlier drain had appended a block.
C3_Witness ==
    /\ mpc = "tick"
    /\ checkedEmpty
    /\ Len(blocks) = 1
    /\ cycleBlocks = blocks

\* C4: every block of the ledger holds at least one transaction.
C4_NoEmptyBlocks ==
    \A i \in 1..Len(blocks) : Len(blocks[i].transactions) > 0

\* A block was appended while the loop was adding to the pool between the
\* miner's steps.
C4_Witness ==
    /\ Len(blocks) = 2
    /\ Len(blocks[2].transactions) = 1
    /\ lpc = "add_push"

\* C5: a transaction added between a drain's snapshot read and its clear
\* step is in no block, and once that drain has cleared the pool it is not
\* in the pool either.
C5_RacedAddDropped ==
    \A id \in windowAdds :
        /\ id \notin LedgerIds
        /\ ~InDrainWindow => id \notin Ids(pool)

\* A raced transaction exists and a later drain cycle has appended a block.
C5_Witness ==
    /\ windowAdds # {}
    /\ Len(blocks) >= 2
    /\ mpc = "tick"
    /\ pool = << >>

\* C6: when the miner waits for its tick and no command is being handled,
\* the pool holds exactly the transactions added since the latest drain
\* (the one that ended with the latest clear step).
C6_PoolIsAddedSinceDrain ==
    Settled =>
        /\ Ids(pool) = (drainMark + 1)..nAdded
        /\ Len(pool) = nAdded - drainMark

\* Settled, after a drain, with two transactions added since.
C6_Witness ==
    /\ Settled
    /\ drainMark > 0
    /\ Len(pool) = 2

\* C7: the ledger before a step is a prefix of the ledger after it.
C7_LedgerAppendOnly ==
    [][IsPrefix(blocks, blocks')]_vars

\* A second block has been appended behind the first.
C7_Witness ==
    /\ Len(blocks) = 2
    /\ mpc = "clear_lock"

\* C8: handling a local FETCH_BLOCKCHAIN changes neither the pool nor the
\* ledger, calls no publish and appends nothing, whatever the miner is doing.
C8_FetchIsReadOnly ==
    /\ [](cmd = LocalFetch => cmdAppends = 0 /\ cmdPublishes = 0 /\ lpc = "select")
    /\ [][ (nEvents' = nEvents + 1 /\ cmd' = LocalFetch)
              => /\ blocks' = blocks
                 /\ pool' = pool
                 /\ publishAttempts' = publishAttempts
         ]_vars

\* FETCH_BLOCKCHAIN was handled while the miner held the ledger lock to push
\* a block.
C8_Witness ==
    /\ cmd = LocalFetch
    /\ output.kind = "blockchain"
    /\ output.locked
    /\ mpc = "mine_push"
    /\ pool # << >>

\* C9: a local ADD_TRANSACTION appends exactly once to the pool and calls
\* publish at most once, after the append.
C9_LocalAddOnceThenPublish ==
    cmd = LocalAdd =>
        /\ cmdAppends <= 1
        /\ cmdPublishes <= 1
        /\ lpc \in {"add_lock", "add_push"} => cmdAppends = 0 /\ cmdPublishes = 0
        /\ lpc = "publish" => cmdAppends = 1 /\ cmdPublishes = 0
        /\ lpc = "select" => cmdAppends = 1
        /\ cmdPublishes > 0 => cmdAppends = 1

\* A local ADD_TRANSACTION has been handled to the end and its publish failed.
C9_Witness ==
    /\ cmd = LocalAdd
    /\ lpc = "select"
    /\ cmdAppends = 1
    /\ cmdPublishes = 1
    /\ output.kind = "publish_error"

\* C10: an ADD_TRANSACTION from the network appends exactly once to the pool
\* and calls publish zero times.
C10_NetAddOnceNoPublish ==
    /\ [](cmd = NetAdd =>
            /\ cmdPublishes = 0
            /\ cmdAppends <= 1
            /\ lpc # "publish"
            /\ lpc \in {"add_lock", "add_push"} => cmdAppends = 0
            /\ lpc = "select" => cmdAppends = 1)
    /\ [][cmd' = NetAdd /\ cmd = NetAdd => publishAttempts' = publishAttempts]_vars

\* A network ADD_TRANSACTION has been handled to the end.
C10_Witness ==
    /\ cmd = NetAdd
    /\ lpc = "select"
    /\ cmdAppends = 1
    /\ publishAttempts = 0
    /\ nAdded = 1

\* C11: when the publish of a local ADD_TRANSACTION fails, the step leaves
\* the pool (with the transaction of that command) and the ledger as they
\* are, and the loop is back in select!, ready for the next command.
C11_PublishFailureKeepsPool ==
    [][ (lpc = "publish" /\ lpc' # "publish" /\ output'.kind = "publish_error")
           => /\ pool' = pool
              /\ blocks' = blocks
              /\ nAdded' = nAdded
              /\ lpc' = "select"
              /\ drainMark < nAdded => nAdded \in Ids(pool')
      ]_vars

\* After a failed publish the loop has taken the next command, and the
\* transaction of the failed one is still the pool's only element.
C11_Witness ==
    /\ output.kind = "publish_error"
    /\ lpc = "add_lock"
    /\ nEvents = 2
    /\ publishAttempts = 1
    /\ Ids(pool) = {1}
    /\ blocks = << >>

\* C12: a text that is no recognised command, from stdin or from the network,
\* changes neither the pool nor the ledger, calls no publish and leaves the
\* loop in select!; FETCH_BLOCKCHAIN from the network is such a text.
C12_InvalidCommandNoEffect ==
    /\ [](IsInvalid(cmd) => cmdAppends = 0 /\ cmdPublishes = 0 /\ lpc = "select")
    /\ [][ (nEvents' = nEvents + 1 /\ IsInvalid(cmd'))
              => /\ blocks' = blocks
                 /\ pool' = pool
                 /\ nAdded' = nAdded
                 /\ publishAttempts' = publishAttempts
                 /\ lpc' = "select"
                 /\ output'.kind = IF cmd'.src = "local" THEN "invalid"
                                                         ELSE "invalid_node"
         ]_vars

\* FETCH_BLOCKCHAIN arrived from the network, with a pending transaction and
\* a block in place, and was reported as invalid.
C12_Witness ==
    /\ cmd = [src |-> "network", text |-> "FETCH_BLOCKCHAIN"]
    /\ output.kind = "invalid_node"
    /\ pool # << >>
    /\ blocks # << >>

\* The miner waits for a lock that is held; the loop waits for the pool lock.
MinerWaits ==
    \/ mpc \in {"last_lock", "mine_lock"} /\ ledgerLock # "free"
    \/ mpc \in {"pending_lock", "snapshot_lock", "clear_lock"} /\ poolLock # "free"

LoopWaits == lpc = "add_lock" /\ poolLock # "free"

\* The step with which the holder of a lock drops its guard.
MinerReleases ==
    \/ MinerLastRead
    \/ MinerPendingRead
    \/ MinerSnapshotRead
    \/ MinerMinePush
    \/ MinerClearReset

\* C13: no task holds the pool lock and the ledger lock together, a held lock
\* belongs to a task whose next step releases it, the two tasks never wait
\* for each other, and a task that waits for a lock gets out of the wait.
C13_NoDoubleLockNoDeadlock ==
    /\ [](/\ \A t \in {"miner", "main"} : ~(poolLock = t /\ ledgerLock = t)
          /\ ~(MinerWaits /\ LoopWaits)
          /\ MinerWaits => ENABLED AddPush
          /\ LoopWaits => ENABLED MinerReleases
          /\ poolLock = "main" => ENABLED AddPush
          /\ (poolLock = "miner" \/ ledgerLock = "miner") => ENABLED MinerReleases
          /\ ENABLED Miner \/ ENABLED AddPush)
    /\ (MinerWaits ~> ~MinerWaits)
    /\ (LoopWaits ~> ~LoopWaits)

\* The loop waits for the pool lock while the miner holds it to clear the
\* pool, with a block already pushed.
C13_Witness ==
    /\ LoopWaits
    /\ poolLock = "miner"
    /\ mpc = "clear_reset"
    /\ ledgerLock = "free"
    /\ blocks # << >>

\* C14: every step that changes the ledger is the miner's push of new_block
\* at the end of the ledger; no step of the event loop (a command of either
\* source, a peer-lifecycle event, the add or the publish) changes it.
C14_OnlyMinerAppends ==
    [][ /\ blocks' # blocks
            => /\ mpc = "mine_push"
               /\ mpc' = "clear_lock"
               /\ blocks' = Append(blocks, new_block)
               /\ UNCHANGED <<lpc, cmd, nEvents, nAdded, publishAttempts, peerVars>>
        /\ (nEvents' # nEvents \/ lpc' # lpc \/ peerVars' # peerVars)
            => blocks' = blocks
      ]_vars

\* Commands of both sources and a peer-lifecycle event have been handled
\* around two drains.
C14_Witness ==
    /\ Len(blocks) = 2
    /\ nEvents = 3
    /\ cmd.src = "mdns"
    /\ explicitPeers # {}
    /\ publishAttempts = 1

\* C15: the loop takes a new line or event only when the handling of the
\* previous one is complete (its add done and, for a local add, its publish
\* attempted); while a handling is under way the command does not change.
C15_OneCommandAtATime ==
    [][ /\ nEvents' # nEvents
            => /\ lpc = "select"
               /\ nEvents' = nEvents + 1
               /\ cmd = LocalAdd => cmdAppends = 1 /\ cmdPublishes = 1
               /\ cmd = NetAdd => cmdAppends = 1 /\ cmdPublishes = 0
        /\ lpc # "select" => cmd' = cmd /\ nEvents' = nEvents
        /\ cmd' # cmd => nEvents' # nEvents
      ]_vars

\* A miner step (the push of a block) falls inside the handling of the
\* second command: the miner holds the ledger lock while the loop holds the
\* pool lock.
C15_Witness ==
    /\ lpc = "add_push"
    /\ mpc = "mine_push"
    /\ nEvents = 2
    /\ poolLock = "main"
    /\ ledgerLock = "miner"

\* Ids in a sequence of transactions are strictly increasing.
InAddOrder(txs) ==
    \A i, j \in 1..Len(txs) : i < j => txs[i].id < txs[j].id

\* C16: the transactions of every block, and of the pool, are in the order
\* of their adds; two local ADD_TRANSACTION commands from the initial state
\* followed by one drain (the only one, interrupted by no add) give the ledger
\* [Block{number: 1, transactions: [tx1, tx2]}] and an empty pool.
C16_BlockKeepsAddOrder ==
    /\ InAddOrder(pool)
    /\ \A i \in 1..Len(blocks) : InAddOrder(blocks[i].transactions)
    /\ ( /\ Settled
         /\ nEvents = 2
         /\ publishAttempts = 2
         /\ drainMark = 2
         /\ Len(blocks) = 1
         /\ windowAdds = {} )
          => /\ blocks = << [number |-> 1,
                            transactions |-> << Transaction_new(1),
                                                Transaction_new(2) >>] >>
             /\ pool = << >>

\* The scenario has run to its end: two local adds, one drain, all settled.
C16_Witness ==
    /\ Settled
    /\ nEvents = 2
    /\ publishAttempts = 2
    /\ drainMark = 2
    /\ windowAdds = {}
    /\ Len(blocks) = 1

\* The miner has pushed the block of its current cycle and has yet to clear
\* the pool.
AfterPush == mpc \in {"clear_lock", "clear_reset"}

\* C17 as stated: every started miner cycle gets back to the tick, and
\* whenever the pool is non-empty a further block is eventually appended.
C17_AsStated ==
    /\ (mpc # "tick" ~> mpc = "tick")
    /\ \A n \in 0..MaxEvents :
          (pool # << >> /\ Len(blocks) = n) ~> (Len(blocks) > n)

\* The miner has just pushed a block: the ledger is one block longer than
\* it was when the current cycle started.
JustPushed == mpc = "clear_lock" /\ blocks = Append(cycleBlocks, new_block)

\* C17 (amended): the miner leaves the tick again and again, every started
\* cycle gets back to the tick, and whenever the pool is non-empty while the
\* miner is not between its push and its clear, the miner eventually pushes
\* a further block.
C17_MinerProgress ==
    /\ (mpc = "tick" ~> mpc # "tick")
    /\ (mpc # "tick" ~> mpc = "tick")
    /\ ((pool # << >> /\ ~AfterPush) ~> JustPushed)

\* Two cycles have each turned a non-empty pool into a block and a third
\* cycle has found the pool empty.
C17_Witness ==
    /\ mpc = "tick"
    /\ checkedEmpty
    /\ Len(blocks) = 2
    /\ nAdded = 2
    /\ LedgerIds = {1, 2}

\* C18: the explicit-peer set holds exactly the peers whose latest mdns event
\* was a discovery, and a peer-lifecycle event changes neither the pool nor
\* the ledger.
C18_ExplicitPeersFollowEvents ==
    /\ [](explicitPeers = {p \in Peers : peerLast[p] = "discovered"})
    /\ [][ (nEvents' # nEvents /\ cmd'.src = "mdns")
              => /\ pool' = pool
                 /\ blocks' = blocks
                 /\ nAdded' = nAdded
                 /\ publishAttempts' = publishAttempts
                 /\ lpc' = "select"
         ]_vars

\* One peer was discovered and then expired, another one is still explicit,
\* with a transaction pending.
C18_Witness ==
    /\ \E p \in Peers : peerLast[p] = "expired"
    /\ \E p \in Peers : peerLast[p] = "discovered"
    /\ explicitPeers # {}
    /\ pool # << >>

\* C19: no transaction is committed twice: a transaction id occurs in at
\* most one block and once in it, and while the miner waits for its tick no
\* transaction is both in the pool and in the ledger.
C19_NoDoubleCommit ==
    /\ \A i, j \in 1..Len(blocks) :
          \A k \in 1..Len(blocks[i].transactions) :
             \A l \in 1..Len(blocks[j].transactions) :
                blocks[i].transactions[k].id = blocks[j].transactions[l].id
                   => i = j /\ k = l
    /\ mpc = "tick" => Ids(pool) \cap LedgerIds = {}

\* Two blocks are committed and a later transaction waits in the pool while
\* the miner waits for its tick.
C19_Witness ==
    /\ mpc = "tick"
    /\ Len(blocks) = 2
    /\ LedgerIds = {1, 2}
    /\ Ids(pool) = {3}

\* C20: while the miner waits for its tick, every transaction added so far
\* is in the pool, in a block, or was added between the snapshot step and
\* the clear step of a drain; a transaction added at any other moment is in
\* the pool or in a block in every state.
C20_LossOnlyInDrainWindow ==
    /\ mpc = "tick" =>
          \A id \in 1..nAdded :
             id \in Ids(pool) \/ id \in LedgerIds \/ id \in windowAdds
    /\ \A id \in (1..nAdded) \ windowAdds :
          id \in Ids(pool) \/ id \in LedgerIds

\* Transactions 1 and 2 are in block 1, transaction 3 was added in the
\* drain window and is in neither the pool nor the ledger.
C20_Witness ==
    /\ mpc = "tick"
    /\ Len(blocks) = 1
    /\ Ids(blocks[1].transactions) = {1, 2}
    /\ windowAdds = {3}
    /\ pool = << >>

====
